---- MODULE Spec2Model ----
(***************************************************************************)
(* A model of gods.go, the dwm status-bar feeder: the rate formatter       *)
(* `fixed`, the samplers (updateNetUse, updatePower, updatePowerTime, ...) *)
(* and the once-per-second loop of main.                                   *)
(*                                                                         *)
(* Go strings are modelled as sequences of one-character strings.  The     *)
(* private-use glyphs of the icon constants are single elements of such a  *)
(* sequence, written here by the name of the constant that holds them.     *)
(***************************************************************************)
EXTENDS Integers, Sequences, FiniteSets, TLC

VARIABLES
    pc,          \* position of main: "start", "running" or "panicked"
    distroSign,  \* main's local distroSign (gods.go:392)
    rxOld,       \* package variable rxOld (gods.go:70)
    txOld,       \* package variable txOld (gods.go:71)
    status,      \* the line handed to xsetroot by the latest tick (gods.go:408)
    published,   \* number of lines handed to xsetroot so far
    clock,       \* wall-clock time, in units of 1/Res second
    timing,      \* start, duration and sleep of the latest ticks
    netLast,     \* the latest call of updateNetUse: what it read, wrote and returned
    netSeen,     \* the totals of the latest call of updateNetUse that opened its source
    call         \* the latest call of a pure sampler function: op, arg, res

vars == <<pc, distroSign, rxOld, txOld, status, published, clock, timing, netLast, netSeen, call>>

-----------------------------------------------------------------------------
(* Bounds of the model *)

\* clock units per second
Res == 4
\* longest sampling time of one tick, in clock units
MaxDur == 9
\* longest oversleep of time.Sleep, in clock units
MaxJitter == 1
\* ticks of the main loop that are explored
MaxTicks == 3
\* lines of /proc/net/dev
MaxLines == 2
\* half-width of the window of rates sampled around each threshold of fixed
Window == 130
\* number of points of the coarse grid of rates
GridPoints == 10000
\* largest energy_now / charge_now value of one battery
MaxNow == 21
\* pieces the output of acpi -b is put together from
MaxTokens == 3

-----------------------------------------------------------------------------
(* Constants of gods.go:26-59 *)

bpsSign == "b"
kibpsSign == "K"
mibpsSign == "M"
batterySign100 == "batterySign100"
batterySign75 == "batterySign75"
batterySign50 == "batterySign50"
batterySign25 == "batterySign25"
batterySign10 == "batterySign10"
pluggedSign == "pluggedSign"
cpuSign == "cpuSign"
cpuTempSign == "cpuTempSign"
memSign == "memSign"
netReceivedSign == "netReceivedSign"
netTransmittedSign == "netTransmittedSign"
pingSign == "pingSign"
volSign == "volSign"
mutedSign == "mutedSign"
wifiSignFull == "wifiSignFull"
wifiSignHalf == "wifiSignHalf"
wifiSignLow == "wifiSignLow"
wifiSignOff == "wifiSignOff"
keyboardSign == "keyboardSign"
floatSeparator == "."
dateSeparator == "dateSeparator"
fieldSeparator == " "

netDevs == {"eth0:", "eth1:", "wlan0:", "ppp0:", "wlp4s0:"}

-----------------------------------------------------------------------------
(* fmt and strings helpers *)

DigitChars == <<"0", "1", "2", "3", "4", "5", "6", "7", "8", "9">>

IsDigit(c) == \E i \in 1..10 : DigitChars[i] = c

RECURSIVE Digits(_)
Digits(n) ==
    IF n < 10 THEN <<DigitChars[n + 1]>>
    ELSE Digits(n \div 10) \o <<DigitChars[(n % 10) + 1]>>

\* %d
Itoa(n) == IF n < 0 THEN <<"-">> \o Digits(-n) ELSE Digits(n)

RECURSIVE PadLeft(_, _)
PadLeft(s, w) == IF Len(s) >= w THEN s ELSE PadLeft(<<" ">> \o s, w)

\* %<w>d: right-justified in a field of at least w characters
FmtD(w, n) == PadLeft(Itoa(n), w)

\* strings.Replace(s, old, new, 1) for one-character old and new
ReplaceFirst(s, old, new) ==
    IF \E i \in 1..Len(s) : s[i] = old
    THEN LET k == CHOOSE i \in 1..Len(s) : s[i] = old /\ \A j \in 1..(i - 1) : s[j] # old
         IN  [i \in 1..Len(s) |-> IF i = k THEN new ELSE s[i]]
    ELSE s

\* strings.Join(a, sep)
RECURSIVE Join(_, _)
Join(a, sep) ==
    IF Len(a) = 0 THEN <<>>
    ELSE IF Len(a) = 1 THEN a[1]
    ELSE a[1] \o <<sep>> \o Join(Tail(a), sep)

\* a run-time panic (index out of range) of the sampler that was called
Panic == <<"panic: runtime error: index out of range">>

-----------------------------------------------------------------------------
(* fixed, gods.go:75-105 *)

\* Go's / on int truncates toward zero
GoDiv(a, b) == IF a >= 0 THEN a \div b ELSE -((-a) \div b)

fixedDecDigit(rate) ==
    IF rate >= 1000 * 1024 THEN (GoDiv(GoDiv(rate, 1024), 102)) % 10
    ELSE IF rate >= 1000 THEN GoDiv(rate, 102) % 10
    ELSE 0

fixedScaled(rate) ==
    IF rate >= 1000 * 1024 THEN GoDiv(rate, 1024 * 1024)
    ELSE IF rate >= 1000 THEN GoDiv(rate, 1024)
    ELSE rate

\* the KiB/s tier entered at 100 instead of 1000
fixedSuf_early(rate) ==
    IF rate >= 1000 * 1024 THEN mibpsSign
    ELSE IF rate >= 100 THEN kibpsSign
    ELSE bpsSign

fixedSuf(rate) ==
    IF rate >= 1000 * 1024 THEN mibpsSign
    ELSE IF rate >= 1000 THEN kibpsSign
    ELSE bpsSign

\* the one-digit case without its leading blank
fixedFormated_unpadded(scaled, decDigit) ==
    IF scaled >= 100 THEN <<" ">> \o FmtD(3, scaled)
    ELSE IF scaled >= 10 THEN FmtD(2, scaled) \o <<".">> \o FmtD(1, decDigit)
    ELSE FmtD(1, scaled) \o <<".">> \o FmtD(1, decDigit)

fixedFormated(scaled, decDigit) ==
    IF scaled >= 100 THEN <<" ">> \o FmtD(3, scaled)
    ELSE IF scaled >= 10 THEN FmtD(2, scaled) \o <<".">> \o FmtD(1, decDigit)
    ELSE <<" ">> \o FmtD(1, scaled) \o <<".">> \o FmtD(1, decDigit)

fixed(pre, rate) ==
    IF rate < 0 THEN <<pre, " ", "E", "R", "R">>
    ELSE IF rate >= 1000 * 1024 * 1024 THEN <<pre, " ", "E", "R", "R">>
    ELSE <<pre>>
         \o ReplaceFirst(fixedFormated(fixedScaled(rate), fixedDecDigit(rate)), ".", floatSeparator)
         \o <<fixedSuf(rate)>>

-----------------------------------------------------------------------------
(* updateNetUse, gods.go:108-145 *)

\* One whitespace-separated field of a line: a word or a decimal number.
Word(s) == [kind |-> "word", s |-> s, n |-> 0]
Num(n) == [kind |-> "num", s |-> "", n |-> n]

\* the number of leading fields of line[2..10] that %d accepts
RECURSIVE NumsFrom(_, _)
NumsFrom(line, i) ==
    IF i > 10 \/ i > Len(line) THEN 0
    ELSE IF line[i].kind = "num" THEN 1 + NumsFrom(line, i + 1)
    ELSE 0

\* fmt.Sscanf(text, "%s %d %d %d %d %d %d %d %d %d", &dev, &rx, &void x7, &tx):
\* the number of items stored before the scan stopped
SscanfCount(line) == IF Len(line) = 0 THEN 0 ELSE 1 + NumsFrom(line, 2)

\* the arguments after Sscanf: an item that was not reached keeps its old value
SscanfStore(line, dev, rx, tx) ==
    LET n == SscanfCount(line)
    IN  [dev |-> IF n >= 1 THEN line[1].s ELSE dev,
         rx  |-> IF n >= 2 THEN line[2].n ELSE rx,
         tx  |-> IF n >= 10 THEN line[10].n ELSE tx]

\* one pass of the loop body, gods.go:119-124, on the loop's variables
ScanStep(st, line) ==
    LET got == SscanfStore(line, st.dev, st.rx, st.tx)
        hit == got.dev \in netDevs
    IN  [dev |-> got.dev, rx |-> got.rx, tx |-> got.tx,
         rxNow |-> IF hit THEN st.rxNow + got.rx ELSE st.rxNow,
         txNow |-> IF hit THEN st.txNow + got.tx ELSE st.txNow]

RECURSIVE ScanLoop(_, _)
ScanLoop(st, lines) ==
    IF Len(lines) = 0 THEN st ELSE ScanLoop(ScanStep(st, Head(lines)), Tail(lines))

\* rxNow and txNow after the loop, gods.go:115-125
netTotals(lines) ==
    ScanLoop([dev |-> "", rx |-> 0, tx |-> 0, rxNow |-> 0, txNow |-> 0], lines)

\* the ping part, gods.go:130-141; the avgping file is "absent", "junk" (%f fails)
\* or "ok" with the number int(pingAvg) in ms
netPing(avgping) ==
    IF avgping.state = "absent" THEN <<>>
    ELSE IF avgping.state = "junk" THEN <<" ", pingSign, "0", ".", "0", "m", "s">>
    ELSE <<" ", pingSign, " ">> \o Itoa(avgping.ms) \o <<"m", "s">>

\* the two totals stored the wrong way round
netCommit_swapped(rxNow, txNow) == <<txNow, rxNow>>

\* the deferred assignment rxOld, txOld = rxNow, txNow, gods.go:143
netCommit(rxNow, txNow) == <<rxNow, txNow>>

\* the counters reset by a call whose source does not open
updateNetUse_resets(openErr, lines, avgping, rxO, txO) ==
    IF openErr
    THEN [ret |-> <<netReceivedSign, " ", "E", "R", "R", " ", netTransmittedSign, " ", "E", "R", "R">>,
          opened |-> FALSE, wrote |-> TRUE, rxNow |-> 0, txNow |-> 0,
          rxRate |-> 0, txRate |-> 0, rxOld |-> 0, txOld |-> 0]
    ELSE LET t == netTotals(lines)
         IN  [ret |-> fixed(netReceivedSign, t.rxNow - rxO) \o <<" ">>
                      \o fixed(netTransmittedSign, t.txNow - txO) \o netPing(avgping),
              opened |-> TRUE, wrote |-> TRUE, rxNow |-> t.rxNow, txNow |-> t.txNow,
              rxRate |-> t.rxNow - rxO, txRate |-> t.txNow - txO,
              rxOld |-> t.rxNow, txOld |-> t.txNow]

\* updateNetUse on a source that opens (openErr = FALSE) with the given lines, or
\* does not: the string returned, and the package variables after the call
updateNetUse(openErr, lines, avgping, rxO, txO) ==
    IF openErr
    THEN [ret |-> <<netReceivedSign, " ", "E", "R", "R", " ", netTransmittedSign, " ", "E", "R", "R">>,
          opened |-> FALSE, wrote |-> FALSE, rxNow |-> 0, txNow |-> 0,
          rxRate |-> 0, txRate |-> 0, rxOld |-> rxO, txOld |-> txO]
    ELSE LET t == netTotals(lines)
             c == netCommit(t.rxNow, t.txNow)
         IN  [ret |-> fixed(netReceivedSign, t.rxNow - rxO) \o <<" ">>
                      \o fixed(netTransmittedSign, t.txNow - txO) \o netPing(avgping),
              opened |-> TRUE, wrote |-> TRUE, rxNow |-> t.rxNow, txNow |-> t.txNow,
              rxRate |-> t.rxNow - rxO, txRate |-> t.txNow - txO,
              rxOld |-> c[1], txOld |-> c[2]]

-----------------------------------------------------------------------------
(* strconv.Atoi and strings.TrimSpace / strings.Trim *)

IsSpace(c) == c \in {" ", "\n", "\t", "\r"}

RECURSIVE TrimLeft(_, _)
TrimLeft(s, cut) ==
    IF Len(s) > 0 /\ Head(s) \in cut THEN TrimLeft(Tail(s), cut) ELSE s

RECURSIVE TrimRight(_, _)
TrimRight(s, cut) ==
    IF Len(s) > 0 /\ s[Len(s)] \in cut THEN TrimRight(SubSeq(s, 1, Len(s) - 1), cut) ELSE s

TrimSpace(s) == TrimRight(TrimLeft(s, {" ", "\n", "\t", "\r"}), {" ", "\n", "\t", "\r"})

DigitVal(c) == (CHOOSE i \in 1..10 : DigitChars[i] = c) - 1

RECURSIVE ParseDigits(_, _)
ParseDigits(s, acc) ==
    IF Len(s) = 0 THEN acc ELSE ParseDigits(Tail(s), acc * 10 + DigitVal(Head(s)))

\* strconv.Atoi: an optional sign and one or more decimal digits, nothing else
Atoi(s) ==
    LET signed == Len(s) > 0 /\ Head(s) \in {"+", "-"}
        body == IF signed THEN Tail(s) ELSE s
        ok == Len(body) > 0 /\ \A i \in 1..Len(body) : IsDigit(body[i])
    IN  [ok |-> ok,
         n |-> IF ~ok THEN 0
               ELSE IF signed /\ Head(s) = "-" THEN -ParseDigits(body, 0)
               ELSE ParseDigits(body, 0)]

-----------------------------------------------------------------------------
(* updatePower, gods.go:158-222 *)

\* the glyph icon2 starts with, gods.go:203
icon2Sign == "icon2Sign"

\* A file that ioutil.ReadFile reads: present or not, and its text.
NoFile == [present |-> FALSE, text |-> <<>>]
FileOf(text) == [present |-> TRUE, text |-> text]

HasPrefix(s, pre) == Len(s) >= Len(pre) /\ SubSeq(s, 1, Len(pre)) = pre

\* readval, gods.go:170-185: the energy_ file when it can be read, else the
\* charge_ file, else 0; 0 as well when the text is no integer
readval(energy, charge) ==
    IF energy.present THEN (IF Atoi(TrimSpace(energy.text)).ok THEN Atoi(TrimSpace(energy.text)).n ELSE 0)
    ELSE IF charge.present THEN (IF Atoi(TrimSpace(charge.text)).ok THEN Atoi(TrimSpace(charge.text)).n ELSE 0)
    ELSE 0

\* the loop over the directory, gods.go:187-195: enFull and enNow
RECURSIVE powerSum(_)
powerSum(batts) ==
    IF Len(batts) = 0 THEN [enFull |-> 0, enNow |-> 0]
    ELSE LET rest == powerSum(Tail(batts))
             b == Head(batts)
         IN  IF ~HasPrefix(b.name, <<"B", "A", "T">>) THEN rest
             ELSE [enFull |-> readval(b.energy_full, b.charge_full) + rest.enFull,
                   enNow |-> readval(b.energy_now, b.charge_now) + rest.enNow]

\* enPerc, gods.go:201
powerPerc(enNow, enFull) == GoDiv(enNow * 100, enFull)

\* the buckets with < in place of <=
powerIcon_strict(plugged, enPerc) ==
    IF plugged = <<"1", "\n">> THEN pluggedSign
    ELSE IF enPerc < 10 THEN batterySign10
    ELSE IF enPerc < 25 THEN batterySign25
    ELSE IF enPerc < 50 THEN batterySign50
    ELSE IF enPerc < 75 THEN batterySign75
    ELSE batterySign100

\* icon, gods.go:202-220
powerIcon(plugged, enPerc) ==
    IF plugged = <<"1", "\n">> THEN pluggedSign
    ELSE IF enPerc <= 10 THEN batterySign10
    ELSE IF enPerc <= 25 THEN batterySign25
    ELSE IF enPerc <= 50 THEN batterySign50
    ELSE IF enPerc <= 75 THEN batterySign75
    ELSE batterySign100

\* icon2, gods.go:203-220
powerIcon2(plugged, enPerc) ==
    IF plugged = <<"1", "\n">> THEN (IF enPerc <= 98 THEN <<>> ELSE <<icon2Sign>>)
    ELSE IF enPerc <= 75 THEN <<icon2Sign>>
    ELSE IF enPerc <= 100 THEN <<>>
    ELSE <<icon2Sign>>

\* updatePower: ac is the file AC/online, dirErr says ReadDir failed, batts is
\* the directory listing with the energy and charge files of every entry
updatePower(ac, dirErr, batts) ==
    IF ~ac.present THEN <<"|", "E", "R", "R">>
    ELSE IF dirErr THEN <<"|", "E", "R", "R">>
    ELSE LET sum == powerSum(batts)
         IN  IF sum.enFull = 0 THEN <<"|", "E", "R", "R">>
             ELSE LET enPerc == powerPerc(sum.enNow, sum.enFull)
                  IN  <<powerIcon(ac.text, enPerc)>> \o powerIcon2(ac.text, enPerc)
                      \o FmtD(3, enPerc) \o <<"%">>

-----------------------------------------------------------------------------
(* regexp: FindStringSubmatch of `.*(G).*`, G a pattern without newline *)

\* the first index of the line that holds index j
RECURSIVE LineStart(_, _)
LineStart(s, j) == IF j = 1 \/ s[j - 1] = "\n" THEN j ELSE LineStart(s, j - 1)

\* the last index of the line that holds index j (the newline excluded)
RECURSIVE LineEnd(_, _)
LineEnd(s, j) == IF j >= Len(s) \/ s[j + 1] = "\n" THEN j ELSE LineEnd(s, j + 1)

SetMin(S) == CHOOSE j \in S : \A k \in S : j <= k
SetMax(S) == CHOOSE j \in S : \A k \in S : k <= j

\* hits: the indices where G matches, glen[j]: the length of G's match at j.
\* The match is the leftmost one, so it starts with the first line that holds
\* a hit; the leading .* is greedy, so the group is the last hit of that line.
\* The result is <<whole match, group>>, or <<>> (nil) without a match.
\* (Each value is bound in a one-element set, so that it is computed once.)
FindInLine(s, hs, glen, line) ==
    CHOOSE r \in {<<SubSeq(s, line[1], line[2]), SubSeq(s, last, last + glen[last] - 1)>> :
                    last \in {SetMax({j \in hs : j <= line[2]})}} : TRUE

FindSubmatch(s, hits, glen) ==
    CHOOSE r \in {IF hs = {} THEN <<>>
                  ELSE CHOOSE q \in {FindInLine(s, hs, glen, line) :
                                       line \in {<<LineStart(s, SetMin(hs)), LineEnd(s, SetMin(hs))>>}} : TRUE :
                  hs \in {hits}} : TRUE

-----------------------------------------------------------------------------
(* updatePowerTime, gods.go:225-238 *)

\* \d\d:\d\d:\d\d at index j
TimeAt(s, j) ==
    /\ j + 7 <= Len(s)
    /\ \A k \in {0, 1, 3, 4, 6, 7} : IsDigit(s[j + k])
    /\ s[j + 2] = ":"
    /\ s[j + 5] = ":"

timeLen(s) == [j \in 1..Len(s) |-> 8]

\* timeRx.FindStringSubmatch(acpi), gods.go:231-232
timeRxFind(acpi) == FindSubmatch(acpi, {j \in 1..Len(acpi) : TimeAt(acpi, j)}, timeLen(acpi))

\* updatePowerTime: err says that running acpi -b failed, out is its output
updatePowerTime(err, out) ==
    IF err THEN <<"u", "n", "k", "n", "o", "w", "n">>
    ELSE LET acpiMatch == timeRxFind(out)
         IN  IF Len(acpiMatch) = 1 THEN <<"u", "n", "k", "n", "o", "w", "n">>
             ELSE IF Len(acpiMatch) < 2 THEN Panic
             ELSE SubSeq(acpiMatch[2], 1, 5)

-----------------------------------------------------------------------------
(* the other samplers *)

\* count of cores, gods.go:69 (runtime.NumCPU() of the machine)
cores == 4

Err3(sign) == <<sign, "E", "R", "R">>
Err4(sign) == <<sign, " ", "E", "R", "R">>

\* updateCPUUse, gods.go:241-252.  readErr: /proc/loadavg cannot be read;
\* parseErr: %f fails; load100: the load read, in hundredths
updateCPUUse(readErr, parseErr, load100) ==
    IF readErr THEN Err3(cpuSign)
    ELSE IF parseErr THEN Err3(cpuSign)
    ELSE <<cpuSign>> \o FmtD(3, GoDiv(load100, cores)) \o <<"%">>

\* %.2f of a number of kB counted in GB: hundredths, rounded to nearest
Gb2f(kb) ==
    LET h == GoDiv(kb * 100 + 524288, 1024 * 1024)
    IN  Itoa(h \div 100) \o <<".">>
        \o (IF h % 100 < 10 THEN <<"0">> ELSE <<>>) \o Itoa(h % 100)

\* the scan of /proc/meminfo, gods.go:264-284; a line is [ok, prop, val]
RECURSIVE memScan(_, _)
memScan(st, lines) ==
    IF st.done = 15 \/ st.failed \/ Len(lines) = 0 THEN st
    ELSE LET l == Head(lines)
         IN  IF ~l.ok THEN [st EXCEPT !.failed = TRUE]
             ELSE memScan(
                    CASE l.prop = "MemTotal:" ->
                            [st EXCEPT !.total = l.val, !.used = @ + l.val,
                                       !.done = IF (@ \div 1) % 2 = 1 THEN @ ELSE @ + 1]
                      [] l.prop = "MemFree:" ->
                            [st EXCEPT !.used = @ - l.val,
                                       !.done = IF (@ \div 2) % 2 = 1 THEN @ ELSE @ + 2]
                      [] l.prop = "Buffers:" ->
                            [st EXCEPT !.used = @ - l.val,
                                       !.done = IF (@ \div 4) % 2 = 1 THEN @ ELSE @ + 4]
                      [] l.prop = "Cached:" ->
                            [st EXCEPT !.used = @ - l.val,
                                       !.done = IF (@ \div 8) % 2 = 1 THEN @ ELSE @ + 8]
                      [] OTHER -> st,
                    Tail(lines))

\* updateMemUse, gods.go:255-288 (values counted in kB; used is not negative
\* in the inputs explored)
updateMemUse(openErr, lines) ==
    IF openErr THEN Err3(memSign)
    ELSE LET st == memScan([used |-> 0, total |-> 0, done |-> 0, failed |-> FALSE], lines)
         IN  IF st.failed THEN Err3(memSign)
             ELSE <<memSign, " ">> \o Gb2f(st.used) \o <<"/">> \o Gb2f(st.total) \o <<"G", "B">>

\* updateVolume, gods.go:290-303.  err: pacmd list-sinks failed; pacmdMatch:
\* what mutedRx.FindStringSubmatch returned, <<>> (nil) without a match
updateVolume(err, pacmdMatch) ==
    IF err THEN Err4(mutedSign)
    ELSE IF Len(pacmdMatch) < 4 THEN Panic
    ELSE <<IF pacmdMatch[4] = <<"y", "e", "s">> THEN mutedSign ELSE volSign>>
         \o <<" ">> \o pacmdMatch[2]

\* updateWifi, gods.go:305-336.  err: awk failed; out: its output
updateWifi(err, out) ==
    IF err THEN Err4(wifiSignOff)
    ELSE LET strength == TrimRight(TrimLeft(out, {" "}), {" "})
             strengthInt == Atoi(strength)
             wifiSign == IF strengthInt.n > 70 THEN wifiSignFull
                         ELSE IF strengthInt.n > 50 THEN wifiSignHalf
                         ELSE IF strengthInt.n > 20 THEN wifiSignLow
                         ELSE wifiSignOff
         IN  IF strength = <<>> THEN <<wifiSignOff, " ", "0", "%">>
             ELSE IF ~strengthInt.ok THEN Err4(wifiSignOff)
             ELSE IF strengthInt.n >= 100 THEN <<wifiSign>> \o strength \o <<"%">>
             ELSE IF strengthInt.n >= 10 THEN <<wifiSign, " ">> \o strength \o <<"%">>
             ELSE <<wifiSign, " ", " ">> \o strength \o <<"%">>

\* the last line a bufio.Scanner yields, or dflt for an empty file
LastLine(lines, dflt) == IF Len(lines) = 0 THEN dflt ELSE lines[Len(lines)]

\* updateCPUTemp, gods.go:338-355; lines: the lines of the thermal zone file
updateCPUTemp(openErr, lines) ==
    IF openErr THEN Err4(cpuTempSign)
    ELSE LET temp == Atoi(LastLine(lines, <<" ", "E", "R", "R">>))
         IN  IF ~temp.ok THEN Err4(cpuTempSign)
             ELSE <<cpuTempSign, " ">> \o Itoa(GoDiv(temp.n, 1000)) \o <<"deg", "C">>

\* updateKeyboard, gods.go:357-369; lines: the lines of the state file
updateKeyboard(openErr, lines) ==
    IF openErr THEN <<keyboardSign, " ">> \o <<"d", "e", "f", "a", "u", "l", "t">>
    ELSE <<keyboardSign, " ">> \o LastLine(lines, <<"d", "e", "f", "a", "u", "l", "t">>)

\* the glyphs getDistroSign returns, gods.go:374-386
distroSignLinux == "distroSignLinux"
distroSignArch == "distroSignArch"
distroSignSlack == "distroSignSlack"

WordAt(s, j, w) == j + Len(w) - 1 <= Len(s) /\ SubSeq(s, j, j + Len(w) - 1) = w

distroHits(uname) ==
    {j \in 1..Len(uname) : WordAt(uname, j, <<"a", "r", "c", "h">>)
                           \/ WordAt(uname, j, <<"s", "l", "a", "c", "k">>)}

\* distroRx.FindStringSubmatch(uname), gods.go:377-378
distroRxFind(uname) ==
    LET glen == [j \in 1..Len(uname) |-> IF WordAt(uname, j, <<"a", "r", "c", "h">>) THEN 4 ELSE 5]
    IN  FindSubmatch(uname, distroHits(uname), glen)

\* getDistroSign, gods.go:371-388.  err: uname -a failed; out: its output
getDistroSign(err, out) ==
    IF err THEN <<distroSignLinux>>
    ELSE LET distroMatch == distroRxFind(out)
         IN  IF Len(distroMatch) = 1 THEN <<distroSignLinux>>
             ELSE IF Len(distroMatch) < 2 THEN Panic
             ELSE IF distroMatch[2] = <<"a", "r", "c", "h">> THEN <<distroSignArch>>
             ELSE IF distroMatch[2] = <<"s", "l", "a", "c", "k">> THEN <<distroSignSlack>>
             ELSE <<distroSignLinux>>

\* time.Now().Local().Format(dateSeparator + " Mon Jan 02 15:04"), gods.go:404:
\* the minute that holds time t stands for the date and time of day
formatDate(t) == <<dateSeparator, " ">> \o Itoa(t \div (60 * Res))

-----------------------------------------------------------------------------
(* What the samplers read: the inputs of one tick *)

\* one line of /proc/net/dev: the device, 16 counters, received bytes first
\* and transmitted bytes ninth
NetLine(dev, rx, tx) ==
    <<Word(dev), Num(rx), Num(0), Num(0), Num(0), Num(0), Num(0), Num(0), Num(0),
      Num(tx), Num(0), Num(0)>>

Ping(state, ms) == [state |-> state, ms |-> ms]

BatEntry(name, ef, cf, en, cn) ==
    [name |-> name, energy_full |-> ef, charge_full |-> cf, energy_now |-> en, charge_now |-> cn]

NumFile(n) == FileOf(Itoa(n) \o <<"\n">>)

ACName == <<"A", "C">>
BAT0Name == <<"B", "A", "T", "0">>
BAT1Name == <<"B", "A", "T", "1">>
OtherName == <<"h", "i", "d", "p", "p", "_", "b", "a", "t", "t", "e", "r", "y", "_", "0">>

MemLine(prop, val) == [ok |-> TRUE, prop |-> prop, val |-> val]

\* a machine on which every source is there and well-formed
GoodEnv ==
    [vol   |-> [err |-> FALSE,
                match |-> <<<<"v", "o", "l", "u", "m", "e", ":", " ", "f", "r", "o", "n", "t", "-", "l", "e", "f", "t", ":", " ", "4", "2", "%", " ", "/", " ", "f", "r", "o", "n", "t", "-", "r", "i", "g", "h", "t", ":", " ", "4", "2", "%", " ", "m", "u", "t", "e", "d", ":", " ", "n", "o">>, <<"4", "2", "%">>, <<"4", "2", "%">>, <<"n", "o">>>>],
     wifi  |-> [err |-> FALSE, out |-> <<" ", "5", "7">>],
     net   |-> [openErr |-> FALSE,
                lines |-> <<<<Word("Inter-|"), Word("Receive")>>, NetLine("lo:", 5, 5),
                            NetLine("eth0:", 3, 1)>>,
                avgping |-> Ping("ok", 12)],
     cpu   |-> [readErr |-> FALSE, parseErr |-> FALSE, load100 |-> 200],
     temp  |-> [openErr |-> FALSE, lines |-> <<<<"4", "5", "0", "0", "0">>>>],
     mem   |-> [openErr |-> FALSE,
                lines |-> <<MemLine("MemTotal:", 16000000), MemLine("MemFree:", 8000000),
                            MemLine("MemAvailable:", 9000000), MemLine("Buffers:", 1000000),
                            MemLine("Cached:", 2000000), MemLine("SwapCached:", 0)>>],
     power |-> [ac |-> FileOf(<<"0", "\n">>), dirErr |-> FALSE,
                batts |-> <<BatEntry(ACName, NoFile, NoFile, NoFile, NoFile),
                            BatEntry(BAT0Name, NumFile(5000), NoFile, NumFile(2500), NoFile)>>],
     ptime |-> [err |-> FALSE, out |-> <<"B", "a", "t", "t", "e", "r", "y", " ", "0", ":", " ", "D", "i", "s", "c", "h", "a", "r", "g", "i", "n", "g", ",", " ", "5", "0", "%", ",", " ", "0", "1", ":", "2", "3", ":", "4", "5", " ", "r", "e", "m", "a", "i", "n", "i", "n", "g", "\n">>],
     kbd   |-> [openErr |-> FALSE, lines |-> <<<<"u", "s">>>>]]

Samplers == {"vol", "wifi", "net", "cpu", "temp", "mem", "power", "ptime", "kbd"}

\* the ways a source fails: 1 it is not there (the file cannot be opened, the
\* command fails), 2 it is there and does not have the expected shape or value
FailedInput(sampler, mode) ==
    CASE sampler = "vol" ->
            IF mode = 1 THEN [err |-> TRUE, match |-> <<>>] ELSE [err |-> FALSE, match |-> <<>>]
      [] sampler = "wifi" ->
            IF mode = 1 THEN [err |-> TRUE, out |-> <<>>] ELSE [err |-> FALSE, out |-> <<" ", "n", "a", "n">>]
      [] sampler = "net" ->
            IF mode = 1 THEN [openErr |-> TRUE, lines |-> <<>>, avgping |-> Ping("absent", 0)]
            ELSE [openErr |-> FALSE, lines |-> <<<<Word("eth0:"), Word("?")>>>>,
                  avgping |-> Ping("junk", 0)]
      [] sampler = "cpu" ->
            IF mode = 1 THEN [readErr |-> TRUE, parseErr |-> FALSE, load100 |-> 0]
            ELSE [readErr |-> FALSE, parseErr |-> TRUE, load100 |-> 0]
      [] sampler = "temp" ->
            IF mode = 1 THEN [openErr |-> TRUE, lines |-> <<>>]
            ELSE [openErr |-> FALSE, lines |-> <<<<"h", "o", "t">>>>]
      [] sampler = "mem" ->
            IF mode = 1 THEN [openErr |-> TRUE, lines |-> <<>>]
            ELSE [openErr |-> FALSE, lines |-> <<[ok |-> FALSE, prop |-> "", val |-> 0]>>]
      [] sampler = "power" ->
            IF mode = 1 THEN [ac |-> NoFile, dirErr |-> TRUE, batts |-> <<>>]
            ELSE [ac |-> FileOf(<<"0", "\n">>), dirErr |-> FALSE,
                  batts |-> <<BatEntry(BAT0Name, NumFile(0), NoFile, NumFile(0), NoFile)>>]
      [] sampler = "ptime" ->
            IF mode = 1 THEN [err |-> TRUE, out |-> <<>>]
            ELSE [err |-> FALSE, out |-> <<"B", "a", "t", "t", "e", "r", "y", " ", "0", ":", " ", "F", "u", "l", "l", ",", " ", "1", "0", "0", "%", "\n">>]
      [] sampler = "kbd" ->
            IF mode = 1 THEN [openErr |-> TRUE, lines |-> <<>>]
            ELSE [openErr |-> FALSE, lines |-> <<>>]

\* the machine on which the samplers of `failing` fail in the given way
EnvOf(failing, mode) ==
    [k \in Samplers |-> IF k \in failing THEN FailedInput(k, mode) ELSE GoodEnv[k]]

\* no sampler fails, one does, two do, or all of them do
MainEnvs ==
    {EnvOf(failing, mode) :
        failing \in {f \in SUBSET Samplers : Cardinality(f) <= 2 \/ f = Samplers},
        mode \in 1..2}

\* what uname -a may print (or fail to)
UnameRuns ==
    {[err |-> TRUE, out |-> <<>>],
     [err |-> FALSE, out |-> <<"L", "i", "n", "u", "x", " ", "b", "o", "x", " ", "6", ".", "1", ".", "1", "-", "a", "r", "c", "h", "1", "-", "1", " ", "x", "8", "6", "_", "6", "4", "\n">>],
     [err |-> FALSE, out |-> <<"L", "i", "n", "u", "x", " ", "s", "l", "a", "c", "k", "b", "o", "x", " ", "5", ".", "1", "5", ".", "1", "9", " ", "i", "6", "8", "6", "\n">>],
     [err |-> FALSE, out |-> <<"L", "i", "n", "u", "x", " ", "d", "e", "b", " ", "6", ".", "1", ".", "0", "-", "1", "8", "-", "a", "m", "d", "6", "4", "\n">>]}

-----------------------------------------------------------------------------
(* main, gods.go:391-415 *)

\* time.Sleep(time.Second): the same pause after every pass
sleepFor_fixed(now) == Res

\* now.Truncate(time.Second).Add(time.Second).Sub(now), gods.go:412
sleepFor(now) == ((now \div Res) * Res + Res) - now

\* what a call of updateNetUse leaves in netLast: its outcome, the counters it
\* found (against), the totals of the latest earlier call that opened
\* (seenBefore), and the outcome of the call before it
NetRecord(r, before, prev, seen) ==
    [called |-> TRUE, opened |-> r.opened, wrote |-> r.wrote,
     rxNow |-> r.rxNow, txNow |-> r.txNow, rxRate |-> r.rxRate, txRate |-> r.txRate,
     against |-> before, seenBefore |-> seen, ret |-> r.ret,
     prevCalled |-> prev.called, prevOpened |-> prev.called /\ prev.opened,
     prevRxNow |-> prev.rxNow, prevTxNow |-> prev.txNow]

NoNetCall ==
    [called |-> FALSE, opened |-> FALSE, wrote |-> FALSE, rxNow |-> 0, txNow |-> 0,
     rxRate |-> 0, txRate |-> 0, against |-> <<0, 0>>, seenBefore |-> <<0, 0>>,
     ret |-> <<>>, prevCalled |-> FALSE, prevOpened |-> FALSE, prevRxNow |-> 0, prevTxNow |-> 0]

NoCall == [op |-> "none", arg |-> <<>>, done |-> FALSE, res |-> <<>>]

NoTiming == [start |-> 0, dur |-> 0, sleep |-> 0, jitter |-> 0]

InitAt(t) ==
    /\ pc = "start"
    /\ distroSign = <<>>
    /\ rxOld = 0
    /\ txOld = 0
    /\ status = <<>>
    /\ published = 0
    /\ clock = t
    /\ timing = NoTiming
    /\ netLast = NoNetCall
    /\ netSeen = <<0, 0>>
    /\ call = NoCall

Init == InitAt(0)

\* distroSign := getDistroSign(), gods.go:392
Start(uname) ==
    /\ pc = "start"
    /\ LET sign == getDistroSign(uname.err, uname.out)
       IN  IF sign = Panic
           THEN pc' = "panicked" /\ UNCHANGED distroSign
           ELSE pc' = "running" /\ distroSign' = sign
    /\ UNCHANGED <<rxOld, txOld, status, published, clock, timing, netLast, netSeen, call>>

\* one pass of the loop, gods.go:393-414: the samplers in the order of the
\* slice literal, xsetroot, and the sleep until the next second begins.  The
\* pass takes dur clock units up to the second time.Now(), and time.Sleep
\* returns jitter units late.
Tick(env, dur, jitter) ==
    /\ pc = "running"
    /\ published < MaxTicks
    /\ \E vol \in {updateVolume(env.vol.err, env.vol.match)},
          wifi \in {updateWifi(env.wifi.err, env.wifi.out)},
          net \in {updateNetUse(env.net.openErr, env.net.lines, env.net.avgping, rxOld, txOld)},
          cpu \in {updateCPUUse(env.cpu.readErr, env.cpu.parseErr, env.cpu.load100)},
          temp \in {updateCPUTemp(env.temp.openErr, env.temp.lines)},
          mem \in {updateMemUse(env.mem.openErr, env.mem.lines)},
          power \in {updatePower(env.power.ac, env.power.dirErr, env.power.batts)},
          ptime \in {updatePowerTime(env.ptime.err, env.ptime.out)},
          kbd \in {updateKeyboard(env.kbd.openErr, env.kbd.lines)},
          now \in {clock + dur} :
         \E frags \in {<<vol, wifi, net.ret, cpu, temp, mem, power, ptime, formatDate(clock), kbd>>} :
           \* a panic of updateVolume ends the process before updateNetUse runs
           /\ IF vol # Panic /\ wifi # Panic
              THEN /\ rxOld' = net.rxOld
                   /\ txOld' = net.txOld
                   /\ netLast' = NetRecord(net, <<rxOld, txOld>>, netLast, netSeen)
                   /\ netSeen' = IF net.opened THEN <<net.rxNow, net.txNow>> ELSE netSeen
              ELSE UNCHANGED <<rxOld, txOld, netLast, netSeen>>
           /\ IF \E i \in 1..Len(frags) : frags[i] = Panic
              THEN /\ pc' = "panicked"
                   /\ UNCHANGED <<status, published, clock, timing>>
              ELSE /\ pc' = "running"
                   /\ status' = Join(<<<<>>>> \o frags \o <<distroSign>>, fieldSeparator)
                   /\ published' = published + 1
                   /\ timing' = [start |-> clock, dur |-> dur, sleep |-> sleepFor(now),
                                 jitter |-> jitter]
                   /\ clock' = now + sleepFor(now) + jitter
    /\ UNCHANGED <<distroSign, call>>

NextMain ==
    \/ \E uname \in UnameRuns : Start(uname)
    \/ \E env \in MainEnvs : Tick(env, 0, 0)

\* the loop of main on machines whose sources fail in any combination
SpecMain == Init /\ [][NextMain]_vars

\* the process starts at any point of a second
InitTick == \E t \in 0..(Res - 1) : InitAt(t)

NextTick ==
    \/ \E uname \in UnameRuns : Start(uname)
    \/ \E dur \in 0..MaxDur, jitter \in 0..MaxJitter : Tick(GoodEnv, dur, jitter)

\* the loop of main on a machine whose sources are all there, with passes of
\* any duration
SpecTick == InitTick /\ [][NextTick]_vars

-----------------------------------------------------------------------------
(* C1 *)

\* C1: no failure of a sampler ever stops the program: the distro lookup at
\* start-up and every pass of the loop complete, whatever the sources hold.
C1_NeverStops == pc # "panicked"

-----------------------------------------------------------------------------
(* C2 *)

\* C2 as stated, for a clock without oversleep and a pass that began on a
\* second boundary: the next pass begins exactly one second after this one
\* when sampling took less than a second, and right when sampling ended, with
\* no sleep, when it took more than a second.
C2_GapOrImmediate ==
    (published >= 1 /\ pc = "running" /\ timing.jitter = 0 /\ timing.start % Res = 0) =>
        /\ timing.dur < Res => clock - timing.start = Res
        /\ timing.dur > Res => clock = timing.start + timing.dur

\* C2 amended: after every pass the program sleeps for the time that is left
\* to the next second boundary after the end of sampling, more than nothing
\* and at most a second, so the next pass begins on that boundary when the
\* sleep returns on time, and never right after sampling.  For a pass that
\* began on a boundary, the next one begins floor(dur) + 1 seconds later:
\* exactly one second when sampling took less than a second.
C2_SleepsToBoundary ==
    (published >= 1 /\ pc = "running") =>
        /\ timing.sleep \in 1..Res
        /\ (timing.start + timing.dur + timing.sleep) % Res = 0
        /\ clock = timing.start + timing.dur + timing.sleep + timing.jitter
        /\ (timing.jitter = 0 /\ timing.start % Res = 0) =>
              /\ clock - timing.start = Res * ((timing.dur \div Res) + 1)
              /\ timing.dur < Res => clock - timing.start = Res

\* a pass that began on a boundary and took more than a second to sample
C2_Witness ==
    /\ published >= 2
    /\ pc = "running"
    /\ timing.jitter = 0
    /\ timing.start % Res = 0
    /\ timing.dur > Res
    /\ clock - timing.start = 2 * Res

-----------------------------------------------------------------------------
(* fixed on its own *)

\* the rates fixed is applied to: every rate within Window of a threshold of
\* fixed or of a power of ten of a scaled value, and two grids over the range
RatePivots ==
    {0, 10, 100, 1000, 10 * 1024, 100 * 1024, 1000 * 1024,
     10 * 1024 * 1024, 100 * 1024 * 1024, 1000 * 1024 * 1024}

RateSamples ==
    UNION {(p - Window)..(p + Window) : p \in RatePivots}
    \cup {k * 997 : k \in 0..(GridPoints \div 9)}
    \cup {k * 104729 : k \in 0..GridPoints}

PendingCall(op, arg) == [op |-> op, arg |-> arg, done |-> FALSE, res |-> <<>>]

InitCall(calls) ==
    /\ pc = "start"
    /\ distroSign = <<>>
    /\ rxOld = 0
    /\ txOld = 0
    /\ status = <<>>
    /\ published = 0
    /\ clock = 0
    /\ timing = NoTiming
    /\ netLast = NoNetCall
    /\ netSeen = <<0, 0>>
    /\ call \in calls

Return(res) ==
    /\ call' = [call EXCEPT !.done = TRUE, !.res = res]
    /\ UNCHANGED <<pc, distroSign, rxOld, txOld, status, published, clock, timing, netLast, netSeen>>

InitFixed ==
    InitCall({PendingCall("fixed", [pre |-> pre, rate |-> rate]) :
                pre \in {netReceivedSign, netTransmittedSign}, rate \in RateSamples})

CallFixed ==
    /\ call.op = "fixed"
    /\ ~call.done
    /\ Return(fixed(call.arg.pre, call.arg.rate))

\* fixed applied to a prefix and a rate
SpecFixed == InitFixed /\ [][CallFixed]_vars

FixedDone == call.op = "fixed" /\ call.done

InRange(rate) == 0 <= rate /\ rate < 1000 * 1024 * 1024

\* C5: for every rate in [0, 1000*1024*1024) the output of fixed has the same
\* length: the prefix, four characters of value and one of unit.
C5_FixedWidth ==
    (FixedDone /\ InRange(call.arg.rate)) => Len(call.res) = 1 + 4 + 1

\* one rate of each unit and each shape of value has been formatted
C5_Witness ==
    /\ FixedDone
    /\ call.arg.rate >= 1000 * 1024
    /\ call.arg.rate \div (1024 * 1024) < 10
    /\ call.res[Len(call.res)] = mibpsSign
    /\ call.res[2] = " "
    /\ Len(call.res) = 6

HasSeparator(str) == \E i \in 1..Len(str) : str[i] = floatSeparator

\* C6 as stated: for every rate in [0, 1000) the output ends in the B/s marker
\* and holds no decimal point.
C6_NoDecimalPoint ==
    (FixedDone /\ 0 <= call.arg.rate /\ call.arg.rate < 1000) =>
        /\ call.res[Len(call.res)] = bpsSign
        /\ ~HasSeparator(call.res)

\* C6 amended: for every rate in [0, 1000) the output ends in the B/s marker;
\* it holds no decimal point for rates from 100 on, and for rates below 100
\* the value is followed by the separator and the decimal digit 0.
C6_DecimalBelow100 ==
    (FixedDone /\ 0 <= call.arg.rate /\ call.arg.rate < 1000) =>
        /\ call.res[Len(call.res)] = bpsSign
        /\ call.arg.rate >= 100 => ~HasSeparator(call.res)
        /\ call.arg.rate < 100 =>
              /\ call.res[Len(call.res) - 2] = floatSeparator
              /\ call.res[Len(call.res) - 1] = "0"

\* a rate below 100 B/s, shown with its decimal point
C6_Witness ==
    /\ FixedDone
    /\ call.arg.rate = 5
    /\ call.res = <<call.arg.pre, " ", "5", ".", "0", "b">>

\* the tenths digit of rate / unit
Tenths(rate, unit) == ((rate % unit) * 10) \div unit

\* C10: in the KiB/s and MiB/s tiers, when the scaled integer part is below
\* 100, the decimal digit shown is the tenths digit of the true scaled value.
C10_TenthsDigit ==
    /\ (FixedDone /\ 1000 <= call.arg.rate /\ call.arg.rate < 1000 * 1024
          /\ call.arg.rate \div 1024 < 100) =>
            call.res[5] = DigitChars[Tenths(call.arg.rate, 1024) + 1]
    /\ (FixedDone /\ 1000 * 1024 <= call.arg.rate /\ InRange(call.arg.rate)
          /\ call.arg.rate \div (1024 * 1024) < 100) =>
            call.res[5] = DigitChars[Tenths(call.arg.rate, 1024 * 1024) + 1]

-----------------------------------------------------------------------------
(* updateNetUse on its own *)

\* the lines /proc/net/dev is put together from: whole lines of two
\* allow-listed devices and of lo, the header, an empty line, and a line of
\* eth0 that breaks off after the received bytes
NetLineSet ==
    {NetLine("eth0:", 2, 1), NetLine("wlan0:", 0, 1), NetLine("lo:", 1, 1),
     <<Word("Inter-|"), Word("Receive")>>, <<>>, <<Word("eth0:"), Num(1), Word("-")>>}

RECURSIVE SeqsUpTo(_, _)
SeqsUpTo(S, n) ==
    IF n = 0 THEN {<<>>}
    ELSE LET shorter == SeqsUpTo(S, n - 1)
         IN  shorter \cup {<<x>> \o q : x \in S, q \in {r \in shorter : Len(r) = n - 1}}

NetFiles == SeqsUpTo(NetLineSet, MaxLines)

Pings == {Ping("absent", 0), Ping("ok", 12)}

\* a call of updateNetUse
NetCall(openErr, lines, avgping) ==
    /\ \E net \in {updateNetUse(openErr, lines, avgping, rxOld, txOld)} :
         /\ rxOld' = net.rxOld
         /\ txOld' = net.txOld
         /\ netLast' = NetRecord(net, <<rxOld, txOld>>, netLast, netSeen)
         /\ netSeen' = IF net.opened THEN <<net.rxNow, net.txNow>> ELSE netSeen
    /\ UNCHANGED <<pc, distroSign, status, published, clock, timing, call>>

NextNet ==
    \/ NetCall(TRUE, <<>>, Ping("absent", 0))
    \/ \E lines \in NetFiles, avgping \in Pings : NetCall(FALSE, lines, avgping)

\* updateNetUse called again and again, on a source that may change and may
\* fail to open between the calls
SpecNet == Init /\ [][NextNet]_vars

ZeroRates ==
    <<netReceivedSign, " ", "0", ".", "0", "b", " ", netTransmittedSign, " ", "0", ".", "0", "b">>

C9_WritesEveryCall == netLast.called => netLast.wrote

\* C9 amended: every call whose source opens writes the counters once, to the
\* totals of that call, after taking its rates against the counters; a call
\* whose source does not open leaves the counters as they are.  So the rates
\* of a call are taken against the totals of the latest earlier call whose
\* source opened (against zero when there is none).
C9_WritesWhenOpened ==
    /\ <<rxOld, txOld>> = netSeen
    /\ netLast.called =>
          /\ netLast.opened =>
                /\ netLast.wrote
                /\ <<rxOld, txOld>> = <<netLast.rxNow, netLast.txNow>>
                /\ netLast.against = netLast.seenBefore
                /\ netLast.rxRate = netLast.rxNow - netLast.seenBefore[1]
                /\ netLast.txRate = netLast.txNow - netLast.seenBefore[2]
          /\ ~netLast.opened =>
                /\ ~netLast.wrote
                /\ <<rxOld, txOld>> = netLast.seenBefore

\* a call whose source opened, right after one whose source did not, with its
\* rates taken against totals that are older than the call before it
C9_Witness ==
    /\ netLast.called
    /\ netLast.opened
    /\ netLast.prevCalled
    /\ ~netLast.prevOpened
    /\ netLast.seenBefore[1] > 0
    /\ netLast.rxRate = netLast.rxNow - netLast.seenBefore[1]
    /\ netLast.rxNow # netLast.txNow

-----------------------------------------------------------------------------
(* the loop of updateNetUse on its own *)

\* more lines that break off, and lines of devices outside the allow-list
ScanLineSet ==
    NetLineSet
    \cup {<<Word("eth0:")>>, <<Word("face"), Word("|bytes")>>, <<Word("lo:"), Num(1)>>,
          <<Word("wlan0:"), Num(1), Num(0), Num(0), Num(0), Num(0), Num(0), Num(0), Num(0)>>}

InitScan ==
    InitCall({PendingCall("netTotals", [lines |-> lines]) :
                lines \in SeqsUpTo(ScanLineSet, MaxLines)})

CallNetTotals ==
    /\ call.op = "netTotals"
    /\ ~call.done
    /\ Return(netTotals(call.arg.lines))

SpecScan == InitScan /\ [][CallNetTotals]_vars

\* a line that parses: a name and at least nine numbers
WellFormed(line) ==
    /\ Len(line) >= 10
    /\ line[1].kind = "word"
    /\ \A i \in 2..10 : line[i].kind = "num"

\* the sums over the well-formed lines of allow-listed devices
RECURSIVE TrueTotals(_)
TrueTotals(lines) ==
    IF Len(lines) = 0 THEN [rx |-> 0, tx |-> 0]
    ELSE LET rest == TrueTotals(Tail(lines))
             l == Head(lines)
         IN  IF WellFormed(l) /\ l[1].s \in netDevs
             THEN [rx |-> l[2].n + rest.rx, tx |-> l[10].n + rest.tx]
             ELSE rest

\* C8: a line that fails to parse adds nothing: the totals of a call are the
\* sums over the well-formed lines of allow-listed devices.
C8_MalformedAddNothing ==
    (call.op = "netTotals" /\ call.done) =>
        /\ call.res.rxNow = TrueTotals(call.arg.lines).rx
        /\ call.res.txNow = TrueTotals(call.arg.lines).tx

-----------------------------------------------------------------------------
(* updatePowerTime on its own *)

AcpiTokens ==
    {<<"0", "1", ":", "2", "3", ":", "4", "5">>, <<"1", "2", ":", "0", "0", ":", "0", "7">>, <<"B", "a", "t", "t", "e", "r", "y", " ", "0", ":", " ", "5", "7", "%", ",", " ">>, <<" ", "r", "e", "m", "a", "i", "n", "i", "n", "g">>, <<"\n">>, <<"1", ":", "2", "3", ":", "4">>}

RECURSIVE Concat(_)
Concat(parts) == IF Len(parts) = 0 THEN <<>> ELSE Head(parts) \o Concat(Tail(parts))

AcpiOutputs == {Concat(parts) : parts \in SeqsUpTo(AcpiTokens, MaxTokens)}

InitPowerTime ==
    InitCall({PendingCall("updatePowerTime", [err |-> err, out |-> out]) :
                err \in BOOLEAN, out \in AcpiOutputs})

CallPowerTime ==
    /\ call.op = "updatePowerTime"
    /\ ~call.done
    /\ Return(updatePowerTime(call.arg.err, call.arg.out))

SpecPowerTime == InitPowerTime /\ [][CallPowerTime]_vars

\* C4: updatePowerTime returns "unknown" when the command fails, prints
\* nothing or prints no HH:MM:SS, and otherwise the HH:MM of a time it printed.
C4_UnknownOrTime ==
    (call.op = "updatePowerTime" /\ call.done) =>
        IF call.arg.err \/ ~\E j \in 1..Len(call.arg.out) : TimeAt(call.arg.out, j)
        THEN call.res = <<"u", "n", "k", "n", "o", "w", "n">>
        ELSE \E j \in 1..Len(call.arg.out) :
                TimeAt(call.arg.out, j) /\ call.res = SubSeq(call.arg.out, j, j + 4)

-----------------------------------------------------------------------------
(* updatePower on its own *)

\* What one battery directory holds.  kind: "absent" (no such directory),
\* "nofiles", "energy" (energy_full, energy_now), "charge" (charge_full,
\* charge_now), "both" (the energy files, and charge files with other
\* values), "junkfull" (an energy_full that is no number, beside a charge_full)
Bat(kind, full, now) == [kind |-> kind, full |-> full, now |-> now]

BatDir(name, b) ==
    CASE b.kind = "absent" -> <<>>
      [] b.kind = "nofiles" -> <<BatEntry(name, NoFile, NoFile, NoFile, NoFile)>>
      [] b.kind = "energy" -> <<BatEntry(name, NumFile(b.full), NoFile, NumFile(b.now), NoFile)>>
      [] b.kind = "charge" -> <<BatEntry(name, NoFile, NumFile(b.full), NoFile, NumFile(b.now))>>
      [] b.kind = "both" ->
            <<BatEntry(name, NumFile(b.full), NumFile(b.full + 3), NumFile(b.now), NumFile(b.now + 1))>>
      [] b.kind = "junkfull" ->
            <<BatEntry(name, FileOf(<<"n", "/", "a", "\n">>), NumFile(b.full), NumFile(b.now), NoFile)>>

Bat0Choices ==
    {Bat("absent", 0, 0), Bat("nofiles", 0, 0), Bat("both", 20, 7), Bat("junkfull", 20, 5)}
    \cup {Bat(kind, full, now) : kind \in {"energy", "charge"}, full \in {10, 20}, now \in 0..MaxNow}

Bat1Choices ==
    {Bat("absent", 0, 0)} \cup {Bat("energy", full, now) : full \in {10, 20}, now \in 0..MaxNow}

\* the listing of /sys/class/power_supply, in the order of the names
PowerDir(b0, b1, other) ==
    <<BatEntry(ACName, NoFile, NoFile, NoFile, NoFile)>>
    \o BatDir(BAT0Name, b0) \o BatDir(BAT1Name, b1)
    \o (IF other THEN <<BatEntry(OtherName, NumFile(7), NoFile, NumFile(3), NoFile)>> ELSE <<>>)

PowerArgs ==
    {[ac |-> ac, dirErr |-> FALSE, b0 |-> b0, b1 |-> b1, batts |-> PowerDir(b0, b1, other)] :
        ac \in {NoFile, FileOf(<<"1", "\n">>), FileOf(<<"0", "\n">>)},
        b0 \in Bat0Choices, b1 \in Bat1Choices, other \in BOOLEAN}
    \cup {[ac |-> FileOf(<<"0", "\n">>), dirErr |-> TRUE, b0 |-> Bat("absent", 0, 0),
           b1 |-> Bat("absent", 0, 0), batts |-> <<>>]}

InitPower == InitCall({PendingCall("updatePower", arg) : arg \in PowerArgs})

CallPower ==
    /\ call.op = "updatePower"
    /\ ~call.done
    /\ Return(updatePower(call.arg.ac, call.arg.dirErr, call.arg.batts))

SpecPower == InitPower /\ [][CallPower]_vars

\* what can be read of a battery: its full and now values
BatFull(b) == IF b.kind \in {"energy", "charge", "both"} THEN b.full ELSE 0
BatNow(b) == IF b.kind \in {"energy", "charge", "both", "junkfull"} THEN b.now ELSE 0

\* the index where the digits before the closing % begin
RECURSIVE DigitsFrom(_, _)
DigitsFrom(str, i) == IF i > 1 /\ IsDigit(str[i - 1]) THEN DigitsFrom(str, i - 1) ELSE i

\* the number shown before the closing %
ShownPercent(str) == ParseDigits(SubSeq(str, DigitsFrom(str, Len(str)), Len(str) - 1), 0)

BucketIcon(perc) ==
    LET bound == SetMin({b \in {10, 25, 50, 75, 100} : b >= perc})
    IN  CASE bound = 10 -> batterySign10
          [] bound = 25 -> batterySign25
          [] bound = 50 -> batterySign50
          [] bound = 75 -> batterySign75
          [] bound = 100 -> batterySign100

\* C7: with a readable plug status and a summed full above zero, the
\* percentage shown is floor(now * 100 / full) over the sums of the BAT*
\* entries; unplugged, the icon is that of the smallest bound among 10, 25,
\* 50, 75, 100 that is not below the percentage; plugged in, it is the plugged
\* icon whatever the percentage.
C7_BatteryBuckets ==
    (call.op = "updatePower" /\ call.done /\ call.arg.ac.present /\ ~call.arg.dirErr
       /\ BatFull(call.arg.b0) + BatFull(call.arg.b1) > 0) =>
        LET full == BatFull(call.arg.b0) + BatFull(call.arg.b1)
            now == BatNow(call.arg.b0) + BatNow(call.arg.b1)
            perc == (now * 100) \div full
        IN  /\ call.res[Len(call.res)] = "%"
            /\ ShownPercent(call.res) = perc
            /\ (call.arg.ac.text = <<"0", "\n">> /\ perc <= 100) => call.res[1] = BucketIcon(perc)
            /\ call.arg.ac.text = <<"1", "\n">> => call.res[1] = pluggedSign

\* two batteries, unplugged, at 50 percent of their summed capacity: the icon
\* of the bucket up to 50
C7_Witness ==
    /\ call.op = "updatePower"
    /\ call.done
    /\ call.arg.ac.text = <<"0", "\n">>
    /\ call.arg.b0.kind = "charge"
    /\ call.arg.b1.kind = "energy"
    /\ BatFull(call.arg.b0) + BatFull(call.arg.b1) = 30
    /\ BatNow(call.arg.b0) + BatNow(call.arg.b1) = 15
    /\ call.res = <<batterySign50, icon2Sign, " ", "5", "0", "%">>

====
